---------------------------- MODULE Spec2Model ----------------------------
(***************************************************************************)
(* Model of src/main.py, the Kenya Startup Navigator API: the request      *)
(* handler process_query and the three heuristics it applies to the        *)
(* completion text (generate_follow_ups, calculate_confidence,             *)
(* generate_sources).                                                      *)
(*                                                                         *)
(* Representation.                                                         *)
(*  - A Python str is a sequence of one-character strings, so that `in`    *)
(*    (substring), lower(), len() and isdigit() are computed, not assumed. *)
(*    The alphabet is ASCII; str.lower() maps "A".."Z" to "a".."z" and     *)
(*    leaves every other character alone.                                  *)
(*  - A confidence is a fixed-point number in units of 1/Unit (Unit =      *)
(*    10000, so 0.3 is 3000).  Every quantity the code computes is a       *)
(*    multiple of 1/10000, so the arithmetic is the exact value of the     *)
(*    Python expressions; the rounding of IEEE doubles (at most a few      *)
(*    units in the 16th digit) is not modelled.                            *)
(*  - processing_time and timestamp of QueryResponse read the clock and    *)
(*    are left out.                                                        *)
(***************************************************************************)
EXTENDS Integers, Sequences, FiniteSets, TLC

VARIABLES
    \* --- the heuristics applied to one input string
    text,               \* the str handed to a heuristic
    called,             \* which heuristic has been applied to text
    out_follow_ups,     \* list returned by generate_follow_ups
    out_confidence,     \* float returned by calculate_confidence
    out_sources,        \* list returned by generate_sources
    \* --- the request handler
    api_key,            \* os.environ["GROQ_API_KEY"] ("" when unset)
    request,            \* request[r]: the QueryRequest of r
    pc,                 \* pc[r]: "idle", "awaiting" (suspended in client.post), "done"
    posted,             \* posted[r]: the user prompts r has POSTed to the completion API
    reply,              \* reply[r]: what came back from client.post
    result              \* result[r]: the QueryResponse or HTTPException r ended with

heur_vars == <<text, called, out_follow_ups, out_confidence, out_sources>>
req_vars  == <<api_key, request, pc, posted, reply, result>>
vars      == <<text, called, out_follow_ups, out_confidence, out_sources,
               api_key, request, pc, posted, reply, result>>

-----------------------------------------------------------------------------
(* Bounds of the model *)

\* question texts are made of at most MaxWords words
MaxWords == 3
\* completion texts are made of at most MaxFrags fragments
MaxFrags == 5
\* concurrent requests
NumReq == 2

-----------------------------------------------------------------------------
(* Python str and list primitives *)

Min(a, b) == IF a <= b THEN a ELSE b

\* the characters str.lower() changes, with what it changes them to
ToLower ==
    [c \in {"A","B","C","D","E","F","G","H","I","J","K","L","M",
            "N","O","P","Q","R","S","T","U","V","W","X","Y","Z"} |->
        CASE c = "A" -> "a" [] c = "B" -> "b" [] c = "C" -> "c" [] c = "D" -> "d"
          [] c = "E" -> "e" [] c = "F" -> "f" [] c = "G" -> "g" [] c = "H" -> "h"
          [] c = "I" -> "i" [] c = "J" -> "j" [] c = "K" -> "k" [] c = "L" -> "l"
          [] c = "M" -> "m" [] c = "N" -> "n" [] c = "O" -> "o" [] c = "P" -> "p"
          [] c = "Q" -> "q" [] c = "R" -> "r" [] c = "S" -> "s" [] c = "T" -> "t"
          [] c = "U" -> "u" [] c = "V" -> "v" [] c = "W" -> "w" [] c = "X" -> "x"
          [] c = "Y" -> "y" [] c = "Z" -> "z"]

\* str.lower() on one character
LowerChar(c) == IF c \in DOMAIN ToLower THEN ToLower[c] ELSE c

\* s.lower()
Lower(s) == SubSeq([i \in 1..Len(s) |-> LowerChar(s[i])], 1, Len(s))

\* t in s, for str t and s
Contains(t, s) ==
    \E i \in 1..(Len(s) - Len(t) + 1) :
        \A j \in 1..Len(t) : s[i + j - 1] = t[j]

\* any(word in s for word in words)
AnyIn(words, s) == \E k \in 1..Len(words) : Contains(words[k], s)

\* sum(1 for term in terms if term in s)
CountIn(terms, s) == Cardinality({k \in 1..Len(terms) : Contains(terms[k], s)})

Digits == {"0","1","2","3","4","5","6","7","8","9"}

\* any(char.isdigit() for char in s)
HasDigit(s) == \E i \in 1..Len(s) : s[i] \in Digits

\* xs[:n]
Take(xs, n) == SubSeq(xs, 1, Min(Len(xs), n))

-----------------------------------------------------------------------------
(* generate_follow_ups *)

FundingWords == << <<"f","u","n","d","i","n","g">>, <<"i","n","v","e","s","t">>,
                   <<"m","o","n","e","y">>, <<"c","a","p","i","t","a","l">>,
                   <<"r","a","i","s","e">> >>
LegalWords   == << <<"l","e","g","a","l">>, <<"r","e","g","i","s","t","e","r">>,
                   <<"c","o","m","p","l","i","a","n","c","e">>, <<"l","a","w">> >>
ProgramWords == << <<"a","c","c","e","l","e","r","a","t","o","r">>,
                   <<"i","n","c","u","b","a","t","o","r">>,
                   <<"p","r","o","g","r","a","m">> >>
MarketWords  == << <<"m","a","r","k","e","t">>, <<"c","u","s","t","o","m","e","r">>,
                   <<"c","o","m","p","e","t","i","t","i","o","n">> >>

FundingFollowUps ==
    << "What documents do I need to prepare for investor meetings?",
       "How long does the fundraising process typically take in Kenya?",
       "What valuation should I expect at my current stage?" >>
LegalFollowUps ==
    << "What are the ongoing compliance requirements after incorporation?",
       "How much should I budget for legal and regulatory costs?",
       "Which law firms in Kenya specialize in startups?" >>
ProgramFollowUps ==
    << "What are the application requirements for top accelerators?",
       "When are the next application deadlines?",
       "How do I prepare for accelerator interviews?" >>
MarketFollowUps ==
    << "How do I conduct effective market research in Kenya?",
       "What are the key customer acquisition channels here?",
       "How should I price my product for the Kenyan market?" >>
GenericFollowUps ==
    << "How do I get started in Kenya's startup ecosystem?",
       "What funding options are available for early-stage startups?",
       "Which accelerators should I consider applying to in Nairobi?" >>

\* mutant: the legal keywords are tried before the funding keywords
generate_follow_ups_legal_first(question) ==
    LET question_lower == Lower(question) IN
    IF AnyIn(LegalWords, question_lower) THEN LegalFollowUps
    ELSE IF AnyIn(FundingWords, question_lower) THEN FundingFollowUps
    ELSE IF AnyIn(ProgramWords, question_lower) THEN ProgramFollowUps
    ELSE IF AnyIn(MarketWords, question_lower) THEN MarketFollowUps
    ELSE GenericFollowUps

generate_follow_ups(question) ==
    LET question_lower == Lower(question) IN
    IF AnyIn(FundingWords, question_lower) THEN FundingFollowUps
    ELSE IF AnyIn(LegalWords, question_lower) THEN LegalFollowUps
    ELSE IF AnyIn(ProgramWords, question_lower) THEN ProgramFollowUps
    ELSE IF AnyIn(MarketWords, question_lower) THEN MarketFollowUps
    ELSE GenericFollowUps

-----------------------------------------------------------------------------
(* calculate_confidence *)

\* 1.0 in fixed point
Unit == 10000
\* the weights 0.3, 0.4, 0.2 and the bonus 0.1
LengthWeight == 3000
KenyaWeight == 4000
StructureWeight == 2000
SpecificityBonus == 1000
\* len(content) / 1000
LengthFull == 1000
\* kenya_mentions / 5
KenyaFull == 5
\* structure_count / 5
StructureFull == 5

kenya_terms ==
    << <<"k","e","n","y","a">>, <<"k","e","n","y","a","n">>,
       <<"n","a","i","r","o","b","i">>, <<"m","o","m","b","a","s","a">>,
       <<"k","r","a">>, <<"c","b","k">>, <<"i","h","u","b">>,
       <<"t","l","c","o","m">>, <<"n","o","v","a","s","t","a","r">>,
       <<"m","e","s","t">>, <<"a","n","t","l","e","r">>,
       <<"s","h","i","l","l","i","n","g">>,
       <<"e","a","s","t"," ","a","f","r","i","c","a">>,
       <<"k","i","i","c","o">>, <<"e","c","i","t","i","z","e","n">> >>

structure_indicators ==
    << <<"#","#">>, <<"*","*">>, <<"#","#","#">>, <<"-"," ">>,
       <<"1",".">>, <<"2",".">>, <<"3",".">> >>

\* mutant: the length score without its min(.., 1.0)
length_score_unbounded(content) == (Len(content) * LengthWeight) \div LengthFull

\* min(len(content) / 1000, 1.0) * 0.3
length_score(content) ==
    (Min(Len(content), LengthFull) * LengthWeight) \div LengthFull

\* sum(1 for term in kenya_terms if term.lower() in content.lower())
kenya_mentions(content) ==
    LET lowered == Lower(content) IN
    Cardinality({k \in 1..Len(kenya_terms) : Contains(Lower(kenya_terms[k]), lowered)})

\* min(kenya_mentions / 5, 1.0) * 0.4
kenya_score(content) ==
    (Min(kenya_mentions(content), KenyaFull) * KenyaWeight) \div KenyaFull

\* sum(1 for indicator in structure_indicators if indicator in content)
structure_count(content) == CountIn(structure_indicators, content)

\* min(structure_count / 5, 1.0) * 0.2
structure_score(content) ==
    (Min(structure_count(content), StructureFull) * StructureWeight) \div StructureFull

\* the 0.1 added when any character is a digit
specificity_score(content) == IF HasDigit(content) THEN SpecificityBonus ELSE 0

calculate_confidence(content, question) ==
    IF content = <<>> THEN 0
    ELSE Min(length_score(content) + kenya_score(content)
             + structure_score(content) + specificity_score(content), Unit)

-----------------------------------------------------------------------------
(* generate_sources *)

BaseSource == "Kenya Startup Ecosystem Database"
AISource   == "Groq AI Analysis"
\* sources[:4]
SourceLimit == 4

\* sources.append(label) if cond
AppendIf(sources, cond, label) == IF cond THEN Append(sources, label) ELSE sources

\* sources after the appends, before the truncation
appended_sources(content) ==
    LET lowered == Lower(content)
        s0 == <<BaseSource>>
        s1 == AppendIf(s0, Contains(<<"t","l","c","o","m">>, lowered), "TLcom Capital")
        s2 == AppendIf(s1, Contains(<<"n","o","v","a","s","t","a","r">>, lowered),
                       "Novastar Ventures")
        s3 == AppendIf(s2, Contains(<<"i","h","u","b">>, lowered), "iHub Nairobi")
        s4 == AppendIf(s3, Contains(<<"m","e","s","t">>, lowered), "MEST Africa")
        s5 == AppendIf(s4, AnyIn(<< <<"c","b","k">>,
                                    <<"c","e","n","t","r","a","l"," ","b","a","n","k">> >>,
                                 lowered),
                       "Central Bank of Kenya")
        s6 == AppendIf(s5, Contains(<<"k","r","a">>, lowered), "Kenya Revenue Authority")
        s7 == Append(s6, AISource)
    IN  s7

\* mutant: the list is returned without the truncation
generate_sources_untruncated(content) == appended_sources(content)

\* mutant: the truncation spares the trailing label
generate_sources_keep_trailing(content) ==
    LET sources == appended_sources(content) IN
    IF Len(sources) <= SourceLimit THEN sources
    ELSE Append(Take(sources, SourceLimit - 1), AISource)

generate_sources(content) == Take(appended_sources(content), SourceLimit)

-----------------------------------------------------------------------------
(* The strings the heuristics are applied to *)

RECURSIVE Concat(_)
\* "".join(parts)
Concat(parts) == IF parts = <<>> THEN <<>> ELSE Head(parts) \o Concat(Tail(parts))

\* s followed by "x" up to length n
PadTo(s, n) == s \o [i \in 1..(n - Len(s)) |-> "x"]

RECURSIVE Tuples(_, _)
\* the sequences of at most n elements of S
Tuples(S, n) ==
    IF n = 0 THEN {<<>>}
    ELSE LET shorter == Tuples(S, n - 1)
         IN  shorter \cup {Append(t, x) : t \in shorter, x \in S}

QuestionWords ==
    { <<"R","a","i","s","e"," ">>, <<"F","U","N","D","I","N","G"," ">>,
      <<"l","a","w"," ">>, <<"P","r","o","g","r","a","m"," ">>,
      <<"M","a","r">>, <<"K","E","T"," ">>, <<"h","e","l","l","o"," ">> }

\* questions: up to MaxWords words, in any order, run together
QuestionTexts == {Concat(ws) : ws \in Tuples(QuestionWords, MaxWords)}

ContentFrags ==
    << <<"K","e","n","y","a">>, <<"n"," ","N","a","i","r","o","b","i"," ">>,
       <<"K","R","A"," ">>, <<"C","B","K"," ">>,
       <<"C","e","n","t","r","a","l"," ","B","a","n","k"," ">>,
       <<"i","H","u","b"," ">>, <<"T","L","c","o","m"," ">>,
       <<"N","o","v","a","s","t","a","r"," ">>,
       <<"d","o","m","e","s","t","i","c"," ">>,
       <<"#">>, <<"#","#">>, <<"*","*">>, <<"-"," ","1",".">>,
       <<"2",".","3",".">>, <<"7">> >>

\* the fragments picked by S, in the order of ContentFrags
Pick(frags, S) ==
    Concat(SelectSeq([i \in 1..Len(frags) |-> IF i \in S THEN frags[i] ELSE <<>>],
                     LAMBDA f : f # <<>>))

\* the sets of at most n fragment positions
FragSets(frags, n) == {S \in SUBSET (1..Len(frags)) : Cardinality(S) <= n}

\* completion texts: up to MaxFrags fragments
ShortTexts == {Pick(ContentFrags, S) : S \in FragSets(ContentFrags, MaxFrags)}

\* lengths around the point where the length score saturates
LongLengths == {LengthFull - 1, LengthFull, LengthFull + 1, 2 * LengthFull}

\* long completion texts: a fragment or none, padded to a length around LengthFull
LongTexts ==
    {PadTo(Pick(ContentFrags, S), n) :
        S \in FragSets(ContentFrags, MaxFrags - 4), n \in LongLengths}

Texts == QuestionTexts \cup ShortTexts \cup LongTexts

-----------------------------------------------------------------------------
(* The request handler: values *)

Req == 1..NumReq

NoRequest == [question |-> <<>>, startup_profile |-> "None", context |-> <<>>]
NoReply   == [raised |-> FALSE, exc |-> "", status_code |-> 0, text |-> "",
              json_ok |-> FALSE, has_choices |-> FALSE, choices |-> <<>>]
NoDetail  == [msg |-> "", upstream_status |-> 0, upstream_text |-> ""]
NoResult  == [kind |-> "none", status_code |-> 0, detail |-> NoDetail,
              answer |-> <<>>, confidence |-> 0, sources |-> <<>>,
              suggested_follow_ups |-> <<>>]

InitRequests ==
    /\ request = [r \in Req |-> NoRequest]
    /\ pc = [r \in Req |-> "idle"]
    /\ posted = [r \in Req |-> <<>>]
    /\ reply = [r \in Req |-> NoReply]
    /\ result = [r \in Req |-> NoResult]

-----------------------------------------------------------------------------
(* The heuristics, each applied to every text *)

InitHeuristics ==
    /\ text \in Texts
    /\ called = "none"
    /\ out_follow_ups = <<>>
    /\ out_confidence = 0
    /\ out_sources = <<>>
    /\ api_key = ""
    /\ InitRequests

call_generate_follow_ups ==
    /\ called = "none"
    /\ called' = "generate_follow_ups"
    /\ out_follow_ups' = generate_follow_ups(text)
    /\ UNCHANGED <<text, out_confidence, out_sources, req_vars>>

call_calculate_confidence ==
    /\ called = "none"
    /\ called' = "calculate_confidence"
    /\ out_confidence' = calculate_confidence(text, <<>>)
    /\ UNCHANGED <<text, out_follow_ups, out_sources, req_vars>>

call_generate_sources ==
    /\ called = "none"
    /\ called' = "generate_sources"
    /\ out_sources' = generate_sources(text)
    /\ UNCHANGED <<text, out_follow_ups, out_confidence, req_vars>>

NextHeuristics ==
    \/ call_generate_follow_ups
    \/ call_calculate_confidence
    \/ call_generate_sources

SpecHeuristics == InitHeuristics /\ [][NextHeuristics]_vars

-----------------------------------------------------------------------------
(* The request handler: process_query *)

\* raise HTTPException(status_code, detail)
HTTPException(status_code, detail) ==
    [NoResult EXCEPT !.kind = "HTTPException", !.status_code = status_code,
                     !.detail = detail]

\* an exception that is not an HTTPException, with its str(e)
OtherException(name) ==
    [NoResult EXCEPT !.kind = "Exception", !.detail = [NoDetail EXCEPT !.msg = name]]

KeyNotSet   == [NoDetail EXCEPT !.msg = "GROQ_API_KEY environment variable not set"]
InvalidKey  == [NoDetail EXCEPT
                  !.msg = "Invalid Groq API key. Please check your GROQ_API_KEY."]
RateLimited == [NoDetail EXCEPT
                  !.msg = "Rate limit exceeded. Please try again in a moment."]
\* f"Groq API error: {response.status_code} - {response.text}"
GroqError(status_code, body) ==
    [msg |-> "Groq API error: ", upstream_status |-> status_code, upstream_text |-> body]
\* f"Error processing query: {str(e)}"
ProcessingError(e) ==
    [msg |-> "Error processing query: ", upstream_status |-> 0,
     upstream_text |-> e.detail.msg]

Apology ==
    <<"I"," ","a","p","o","l","o","g","i","z","e",","," ","b","u","t"," ","I"," ",
      "c","o","u","l","d","n","'","t"," ","g","e","n","e","r","a","t","e"," ","a"," ",
      "r","e","s","p","o","n","s","e","."," ","P","l","e","a","s","e"," ","t","r","y",
      " ","a","g","a","i","n",".">>

ContextPrefix ==
    <<"\n","\n","A","d","d","i","t","i","o","n","a","l"," ",
      "c","o","n","t","e","x","t",":"," ">>

\* the user prompt built from the request
user_prompt(req) ==
    IF req.context # <<>> THEN req.question \o ContextPrefix \o req.context
    ELSE req.question

\* the status checks on the response of client.post
check_status(rep) ==
    IF rep.status_code = 401 THEN HTTPException(500, InvalidKey)
    ELSE IF rep.status_code = 429 THEN HTTPException(429, RateLimited)
    ELSE IF rep.status_code # 200
         THEN HTTPException(500, GroqError(rep.status_code, rep.text))
    ELSE NoResult

\* mutant: a reply without choices raises instead of degrading to the apology
extract_content_strict(rep) ==
    IF ~rep.json_ok THEN OtherException("JSONDecodeError")
    ELSE IF ~rep.has_choices THEN OtherException("KeyError")
    ELSE IF rep.choices = <<>> THEN OtherException("IndexError")
    ELSE IF rep.choices[1].has_content
         THEN [NoResult EXCEPT !.kind = "QueryResponse",
                               !.answer = rep.choices[1].content]
         ELSE OtherException("KeyError")

\* data = response.json() and the extraction of the content; the result is the
\* exception raised, or a QueryResponse holding only the answer
extract_content(rep) ==
    IF ~rep.json_ok THEN OtherException("JSONDecodeError")
    ELSE IF rep.has_choices /\ rep.choices # <<>>
         THEN IF rep.choices[1].has_content
              THEN [NoResult EXCEPT !.kind = "QueryResponse",
                                    !.answer = rep.choices[1].content]
              ELSE OtherException("KeyError")
    ELSE [NoResult EXCEPT !.kind = "QueryResponse", !.answer = Apology]

\* mutant: the follow-ups are generated from the content, not from the question
build_response_follow_ups_of_content(content, req) ==
    [NoResult EXCEPT !.kind = "QueryResponse",
                     !.status_code = 200,
                     !.answer = content,
                     !.confidence = calculate_confidence(content, req.question),
                     !.sources = generate_sources(content),
                     !.suggested_follow_ups = generate_follow_ups(content)]

\* mutant: the question is read from a module-level variable shared by the requests
\* (it holds the question of the highest-numbered request that has arrived)
build_response_shared_question(content, req) ==
    LET arrived == {r \in Req : pc[r] # "idle"}
        last == IF arrived = {} THEN 1
                ELSE CHOOSE r \in arrived : \A q \in arrived : q <= r
    IN
    [NoResult EXCEPT !.kind = "QueryResponse",
                     !.status_code = 200,
                     !.answer = content,
                     !.confidence = calculate_confidence(content, request[last].question),
                     !.sources = generate_sources(content),
                     !.suggested_follow_ups = generate_follow_ups(request[last].question)]

\* the QueryResponse built from content and the request
build_response(content, req) ==
    [NoResult EXCEPT !.kind = "QueryResponse",
                     !.status_code = 200,
                     !.answer = content,
                     !.confidence = calculate_confidence(content, req.question),
                     !.sources = generate_sources(content),
                     !.suggested_follow_ups = generate_follow_ups(req.question)]

\* the body of the try block from the return of client.post on
after_post(req, rep) ==
    IF rep.raised THEN OtherException(rep.exc)
    ELSE IF check_status(rep).kind = "HTTPException" THEN check_status(rep)
    ELSE IF extract_content(rep).kind = "Exception" THEN extract_content(rep)
    ELSE build_response(extract_content(rep).answer, req)

\* mutant: without the clause `except HTTPException: raise`
except_clauses_wrap_all(outcome) ==
    IF outcome.kind \in {"HTTPException", "Exception"}
    THEN HTTPException(500, ProcessingError(outcome))
    ELSE outcome

\* the two except clauses
except_clauses(outcome) ==
    IF outcome.kind = "HTTPException" THEN outcome
    ELSE IF outcome.kind = "Exception" THEN HTTPException(500, ProcessingError(outcome))
    ELSE outcome

\* mutant: the key is not checked before the call
process_query_start_unchecked(r, inputs) ==
    /\ pc[r] = "idle"
    /\ \E req \in inputs :
        /\ request' = [request EXCEPT ![r] = req]
        /\ posted' = [posted EXCEPT ![r] = Append(@, user_prompt(req))]
        /\ pc' = [pc EXCEPT ![r] = "awaiting"]
        /\ UNCHANGED result
    /\ UNCHANGED <<heur_vars, api_key, reply>>

\* process_query from its entry to the await of client.post
process_query_start(r, inputs) ==
    /\ pc[r] = "idle"
    /\ \E req \in inputs :
        /\ request' = [request EXCEPT ![r] = req]
        /\ IF api_key = ""
           THEN /\ result' = [result EXCEPT
                                ![r] = except_clauses(HTTPException(500, KeyNotSet))]
                /\ pc' = [pc EXCEPT ![r] = "done"]
                /\ UNCHANGED posted
           ELSE /\ posted' = [posted EXCEPT ![r] = Append(@, user_prompt(req))]
                /\ pc' = [pc EXCEPT ![r] = "awaiting"]
                /\ UNCHANGED result
    /\ UNCHANGED <<heur_vars, api_key, reply>>

\* mutant: a rate-limited call is made once more
process_query_resume_retry(r, replies) ==
    /\ pc[r] = "awaiting"
    /\ \E rep \in replies :
        IF ~rep.raised /\ rep.status_code = 429 /\ Len(posted[r]) < 2
        THEN /\ posted' = [posted EXCEPT ![r] = Append(@, user_prompt(request[r]))]
             /\ UNCHANGED <<reply, result, pc>>
        ELSE /\ reply' = [reply EXCEPT ![r] = rep]
             /\ result' = [result EXCEPT
                             ![r] = except_clauses(after_post(request[r], rep))]
             /\ pc' = [pc EXCEPT ![r] = "done"]
             /\ UNCHANGED posted
    /\ UNCHANGED <<heur_vars, api_key, request>>

\* process_query from the return of client.post to its end
process_query_resume(r, replies) ==
    /\ pc[r] = "awaiting"
    /\ \E rep \in replies :
        /\ reply' = [reply EXCEPT ![r] = rep]
        /\ result' = [result EXCEPT ![r] = except_clauses(after_post(request[r], rep))]
    /\ pc' = [pc EXCEPT ![r] = "done"]
    /\ UNCHANGED <<heur_vars, api_key, request, posted>>

-----------------------------------------------------------------------------
(* Requests and upstream replies *)

LegalQuestion == <<"L","e","g","a","l"," ","h","e","l","p">>
HelloQuestion == <<"H","e","l","l","o">>
SomeContext   == <<"B","2","B"," ","S","a","a","S">>

Requests ==
    { [question |-> LegalQuestion, startup_profile |-> "None",    context |-> <<>>],
      [question |-> LegalQuestion, startup_profile |-> "fintech", context |-> SomeContext],
      [question |-> HelloQuestion, startup_profile |-> "fintech", context |-> SomeContext] }

\* client.post raised (timeout, transport failure)
Raises(exc) == [NoReply EXCEPT !.raised = TRUE, !.exc = exc]
\* a response with a status other than 200
Status(status_code, body) == [NoReply EXCEPT !.status_code = status_code, !.text = body]
\* a 200 response whose body is not JSON
NotJson == [NoReply EXCEPT !.status_code = 200, !.text = "<html>"]
\* a 200 response without the key "choices"
NoChoices == [NoReply EXCEPT !.status_code = 200, !.json_ok = TRUE]
\* a 200 response with the given list of choices
Choices(choices) ==
    [NoReply EXCEPT !.status_code = 200, !.json_ok = TRUE, !.has_choices = TRUE,
                    !.choices = choices]
\* a choice holding message.content
Choice(content) == [has_content |-> TRUE, content |-> content]
\* a choice without message.content
BadChoice == [has_content |-> FALSE, content |-> <<>>]

ContentA ==
    <<"#","#"," ","K","e","n","y","a",":"," ","T","L","c","o","m"," ","f","u","n","d","s",
      " ","3"," ","s","t","a","r","t","u","p","s">>
ContentB ==
    <<"T","r","y"," ","K","R","A",","," ","C","B","K"," ","a","n","d"," ","i","H","u","b">>

Replies ==
    { Status(401, "Unauthorized"), Status(429, "Too Many Requests"),
      Status(503, "Service Unavailable"), Raises("ReadTimeout"),
      NotJson, NoChoices, Choices(<<>>), Choices(<<BadChoice>>),
      Choices(<<Choice(ContentA)>>), Choices(<<Choice(ContentB), Choice(ContentA)>>) }

Init ==
    /\ api_key \in {"", "gsk_live"}
    /\ InitRequests
    /\ text = <<>>
    /\ called = "none"
    /\ out_follow_ups = <<>>
    /\ out_confidence = 0
    /\ out_sources = <<>>

Next ==
    \E r \in Req :
        \/ process_query_start(r, Requests)
        \/ process_query_resume(r, Replies)

Spec == Init /\ [][Next]_vars

-----------------------------------------------------------------------------
(* End to end: one request with the question of the spec's test *)

E2EQuestion ==
    <<"H","o","w"," ","d","o"," ","I"," ","r","a","i","s","e"," ","f","u","n","d","i","n",
      "g"," ","i","n"," ","N","a","i","r","o","b","i","?">>

E2ERequests ==
    { [question |-> E2EQuestion, startup_profile |-> "None", context |-> <<>>],
      [question |-> E2EQuestion, startup_profile |-> "fintech", context |-> SomeContext] }

\* what a content may hold besides "Kenya" twice, one "##" and one digit
E2EExtras ==
    << <<"N","a","i","r","o","b","i"," ">>, <<"K","R","A"," ">>, <<"C","B","K"," ">>,
       <<"C","e","n","t","r","a","l"," ","B","a","n","k"," ">>,
       <<"i","H","u","b"," ">>, <<"T","L","c","o","m"," ">>,
       <<"N","o","v","a","s","t","a","r"," ">>,
       <<"d","o","m","e","s","t","i","c"," ">> >>

E2EHead == <<"#","#"," ","K","e","n","y","a"," ">>
E2ETail == <<"K","e","n","y","a"," ","5">>

\* contents holding "Kenya" twice, one "##" header and one digit, and besides them
\* some organization names and padding
E2EContents ==
    {PadTo(E2EHead \o Pick(E2EExtras, S) \o E2ETail, n) :
        S \in FragSets(E2EExtras, MaxFrags - 2),
        n \in {0, LengthFull \div 4, LengthFull \div 2, LengthFull + 1}}

E2EReplies == {Choices(<<Choice(c)>>) : c \in E2EContents}

NextE2E ==
    \/ process_query_start(1, E2ERequests)
    \/ process_query_resume(1, E2EReplies)

SpecE2E == Init /\ [][NextE2E]_vars

-----------------------------------------------------------------------------
(* Properties of the heuristics, checked under SpecHeuristics *)

\* key occurs in s, a string already lowered
OccursIn(key, s) ==
    \E i \in 1..(Len(s) - Len(key) + 1) : SubSeq(s, i, i + Len(key) - 1) = key

\* the categories of follow-ups, in priority order
Categories ==
    << [words |-> FundingWords, follow_ups |-> FundingFollowUps],
       [words |-> LegalWords,   follow_ups |-> LegalFollowUps],
       [words |-> ProgramWords, follow_ups |-> ProgramFollowUps],
       [words |-> MarketWords,  follow_ups |-> MarketFollowUps] >>

\* the categories one of whose keywords occurs in q
MatchedCategories(q) ==
    LET lowered == Lower(q) IN
    {c \in 1..Len(Categories) :
        \E k \in 1..Len(Categories[c].words) : OccursIn(Categories[c].words[k], lowered)}

\* C1: generate_follow_ups returns exactly 3 strings, the set of the first category
\* (funding > legal > program > market) that has a keyword occurring in the question
\* whatever its case, and the generic set when no keyword occurs.
C1_FollowUpsByPriority ==
    called = "generate_follow_ups" =>
        LET matched == MatchedCategories(text) IN
        /\ Len(out_follow_ups) = 3
        /\ matched = {} => out_follow_ups = GenericFollowUps
        /\ \A c \in matched :
              (\A d \in matched : c <= d) => out_follow_ups = Categories[c].follow_ups
        /\ 1 \in matched => out_follow_ups = FundingFollowUps

\* C1 witness: a question with a funding keyword in upper case and a legal
\* keyword gets the funding set.
C1_Witness ==
    /\ called = "generate_follow_ups"
    /\ {1, 2} \subseteq MatchedCategories(text)
    /\ ~Contains(<<"f","u","n","d","i","n","g">>, text)
    /\ ~Contains(<<"r","a","i","s","e">>, text)
    /\ out_follow_ups = FundingFollowUps

\* C2: calculate_confidence is within [0,1], is 0.0 for the empty text, and otherwise
\* is the sum of the four sub-scores capped at 1.0, each sub-score being at most its
\* weight and equal to it from 1000 characters, 5 terms and 5 markers on.
C2_ConfidenceInUnitInterval ==
    called = "calculate_confidence" =>
        /\ out_confidence \in 0..Unit
        /\ text = <<>> => out_confidence = 0
        /\ length_score(text) \in 0..LengthWeight
        /\ kenya_score(text) \in 0..KenyaWeight
        /\ structure_score(text) \in 0..StructureWeight
        /\ specificity_score(text) \in {0, SpecificityBonus}
        /\ Len(text) >= LengthFull => length_score(text) = LengthWeight
        /\ kenya_mentions(text) >= KenyaFull => kenya_score(text) = KenyaWeight
        /\ structure_count(text) >= StructureFull
              => structure_score(text) = StructureWeight
        /\ text # <<>> =>
              out_confidence = Min(length_score(text) + kenya_score(text)
                                   + structure_score(text) + specificity_score(text),
                                   Unit)

\* C2 witness: a text twice as long as the saturation length, holding a term.
C2_Witness ==
    /\ called = "calculate_confidence"
    /\ Len(text) = 2 * LengthFull
    /\ kenya_mentions(text) = 1
    /\ out_confidence = LengthWeight + KenyaWeight \div KenyaFull

\* the organization checks in checklist order
OrgChecklist ==
    << [keys |-> {<<"t","l","c","o","m">>},             label |-> "TLcom Capital"],
       [keys |-> {<<"n","o","v","a","s","t","a","r">>}, label |-> "Novastar Ventures"],
       [keys |-> {<<"i","h","u","b">>},                 label |-> "iHub Nairobi"],
       [keys |-> {<<"m","e","s","t">>},                 label |-> "MEST Africa"],
       [keys |-> {<<"c","b","k">>, <<"c","e","n","t","r","a","l"," ","b","a","n","k">>},
                                                        label |-> "Central Bank of Kenya"],
       [keys |-> {<<"k","r","a">>},                     label |-> "Kenya Revenue Authority"] >>

\* the positions of OrgChecklist whose check matches s
MatchedOrgs(s) ==
    LET lowered == Lower(s) IN
    {i \in 1..Len(OrgChecklist) : \E key \in OrgChecklist[i].keys : OccursIn(key, lowered)}

\* the labels of the matched checks, in checklist order
MatchedLabels(s) ==
    LET matched == MatchedOrgs(s)
        pos == SelectSeq([i \in 1..Len(OrgChecklist) |-> i], LAMBDA i : i \in matched)
    IN  [k \in 1..Len(pos) |-> OrgChecklist[pos[k]].label]

\* label is an entry of sources
InSources(label, sources) == \E k \in 1..Len(sources) : sources[k] = label

\* C3: generate_sources returns the first 4 entries of base label, matched
\* organization labels in checklist order, trailing label; it begins with the base
\* label, has at most 4 entries, and for a text matching tlcom, kra, mest and ihub it
\* has 4 entries and not the trailing label.
C3_SourcesFirstFour ==
    called = "generate_sources" =>
        LET full == <<BaseSource>> \o MatchedLabels(text) \o <<AISource>> IN
        /\ out_sources = SubSeq(full, 1, Min(4, Len(full)))
        /\ out_sources[1] = BaseSource
        /\ Len(out_sources) <= 4
        /\ {1, 3, 4, 6} \subseteq MatchedOrgs(text) =>
              Len(out_sources) = 4 /\ ~InSources(AISource, out_sources)

\* C3 witness: a text matching exactly tlcom, ihub, mest and kra.
C3_Witness ==
    /\ called = "generate_sources"
    /\ MatchedOrgs(text) = {1, 3, 4, 6}
    /\ out_sources = <<BaseSource, "TLcom Capital", "iHub Nairobi", "MEST Africa">>

\* C4 as claimed: whenever fewer than 4 organization checks match, the trailing label
\* is the last entry of the result.
C4_TrailingKeptBelowFour ==
    called = "generate_sources" =>
        (Cardinality(MatchedOrgs(text)) < 4
            => out_sources[Len(out_sources)] = AISource)

\* C4 as amended: the trailing label is the last entry whenever fewer than 3
\* organization checks match, and is truncated off whenever 3 or more match.
C4_TrailingKeptBelowThree ==
    called = "generate_sources" =>
        /\ Cardinality(MatchedOrgs(text)) < 3
              => out_sources[Len(out_sources)] = AISource
        /\ Cardinality(MatchedOrgs(text)) >= 3 => ~InSources(AISource, out_sources)

\* C4 witness: exactly 3 checks match and the trailing label is truncated off.
C4_Witness ==
    /\ called = "generate_sources"
    /\ Cardinality(MatchedOrgs(text)) = 3
    /\ Len(out_sources) = 4
    /\ ~InSources(AISource, out_sources)

-----------------------------------------------------------------------------
(* Properties of process_query, checked under SpecE2E and Spec *)

\* r ended with a QueryResponse
Answered(r) == pc[r] = "done" /\ result[r].kind = "QueryResponse"

\* r ended with an HTTPException of the given status and detail, and no answer
FailedWith(r, status_code, detail) ==
    /\ pc[r] = "done"
    /\ result[r] = [NoResult EXCEPT !.kind = "HTTPException",
                                    !.status_code = status_code, !.detail = detail]

\* r got something back from its outbound call
Replied(r) == pc[r] = "done" /\ Len(posted[r]) >= 1

\* the number of places where key occurs in s
Occurrences(key, s) ==
    Cardinality({i \in 1..(Len(s) - Len(key) + 1) : SubSeq(s, i, i + Len(key) - 1) = key})

\* content holds "Kenya" twice, one "##" header and one digit
E2EContent(content) ==
    /\ Occurrences(<<"K","e","n","y","a">>, content) = 2
    /\ Occurrences(<<"#","#">>, content) = 1
    /\ Cardinality({i \in 1..Len(content) : content[i] \in Digits}) = 1

\* the organization keywords occurring in s
MatchedOrgKeywords(s) ==
    LET lowered == Lower(s) IN
    {key \in UNION {OrgChecklist[i].keys : i \in 1..Len(OrgChecklist)} :
        OccursIn(key, lowered)}

\* the rest of C5, which does not depend on the bounds of the confidence
E2EFollowUpsAndSources(r) ==
    /\ result[r].suggested_follow_ups = FundingFollowUps
    /\ result[r].sources[1] = BaseSource
    /\ Cardinality(MatchedOrgKeywords(result[r].answer)) < 3
          => result[r].sources[Len(result[r].sources)] = AISource

C6_ErrorMapping ==
    \A r \in Req : Replied(r) =>
        LET rep == reply[r] IN
        /\ (~rep.raised /\ rep.status_code = 401) => FailedWith(r, 500, InvalidKey)
        /\ (~rep.raised /\ rep.status_code = 429) => FailedWith(r, 429, RateLimited)
        /\ (~rep.raised /\ rep.status_code \notin {200, 401, 429})
              => FailedWith(r, 500, [msg |-> "Groq API error: ",
                                     upstream_status |-> rep.status_code,
                                     upstream_text |-> rep.text])
        /\ rep.raised
              => FailedWith(r, 500, [msg |-> "Error processing query: ",
                                     upstream_status |-> 0, upstream_text |-> rep.exc])
        /\ (~rep.raised /\ rep.status_code = 200 /\ ~rep.json_ok)
              => FailedWith(r, 500, [msg |-> "Error processing query: ",
                                     upstream_status |-> 0,
                                     upstream_text |-> "JSONDecodeError"])
        /\ (~rep.raised /\ rep.status_code = 200 /\ rep.json_ok /\ rep.has_choices
               /\ rep.choices # <<>> /\ ~rep.choices[1].has_content)
              => FailedWith(r, 500, [msg |-> "Error processing query: ",
                                     upstream_status |-> 0, upstream_text |-> "KeyError"])

\* C6 witness: a 503 has ended a request with the upstream error carrying 503 and
\* the body, and a 401 has ended another with the invalid-key error.
C6_Witness ==
    \E r, q \in Req :
        /\ Replied(r) /\ reply[r] = Status(503, "Service Unavailable")
        /\ result[r].detail.upstream_status = 503
        /\ result[r].detail.upstream_text = "Service Unavailable"
        /\ Replied(q) /\ reply[q].status_code = 401
        /\ result[q].detail.msg = "Invalid Groq API key. Please check your GROQ_API_KEY."

\* C7: with GROQ_API_KEY missing or empty, a request ends with the configuration
\* error and no outbound call is made for it.
C7_FailsClosedWithoutKey ==
    api_key = "" =>
        \A r \in Req :
            /\ posted[r] = <<>>
            /\ pc[r] # "awaiting"
            /\ pc[r] = "done" =>
                  FailedWith(r, 500,
                      [NoDetail EXCEPT !.msg = "GROQ_API_KEY environment variable not set"])

\* C7 witness: a request handled without the key has ended, nothing posted.
C7_Witness ==
    /\ api_key = ""
    /\ pc[1] = "done"
    /\ result[1].kind = "HTTPException"
    /\ posted[1] = <<>>

\* C8: a 200 reply without "choices" or with an empty list of choices is answered
\* with the apology string, and confidence, sources and follow-ups are computed from
\* that string and the question as for any other answer.
C8_ApologyOnNoChoices ==
    \A r \in Req :
        (Replied(r) /\ ~reply[r].raised /\ reply[r].status_code = 200 /\ reply[r].json_ok
            /\ (~reply[r].has_choices \/ reply[r].choices = <<>>))
        => /\ result[r].kind = "QueryResponse"
           /\ result[r].answer = Apology
           /\ result[r].confidence = calculate_confidence(Apology, request[r].question)
           /\ result[r].confidence = (Len(Apology) * LengthWeight) \div LengthFull
           /\ result[r].sources = generate_sources(Apology)
           /\ result[r].sources = <<BaseSource, AISource>>
           /\ result[r].suggested_follow_ups = generate_follow_ups(request[r].question)

\* C8 witness: one request got a reply without "choices", another one with an empty
\* list, and both are answered with the apology.
C8_Witness ==
    \E r, q \in Req :
        /\ Replied(r) /\ reply[r] = NoChoices
        /\ Replied(q) /\ reply[q] = Choices(<<>>)
        /\ result[r].answer = Apology /\ result[q].answer = Apology
        /\ result[r].suggested_follow_ups = LegalFollowUps

\* C9: a request makes at most one outbound call, and once that call has failed or
\* returned a status other than 200 the request has ended with an error.
C9_NoRetry ==
    \A r \in Req :
        /\ Len(posted[r]) <= 1
        /\ pc[r] = "awaiting" => Len(posted[r]) = 1 /\ reply[r] = NoReply
        /\ reply[r] # NoReply =>
              /\ pc[r] = "done"
              /\ (reply[r].raised \/ reply[r].status_code # 200)
                    => result[r].kind = "HTTPException" /\ result[r].answer = <<>>

\* C9 witness: a request whose call was rate limited has ended with the rate-limit
\* error after one call.
C9_Witness ==
    \E r \in Req :
        /\ pc[r] = "done"
        /\ reply[r].status_code = 429
        /\ result[r].status_code = 429
        /\ Len(posted[r]) = 1

\* the answer r's own reply gives
OwnAnswer(r) ==
    IF reply[r].has_choices /\ reply[r].choices # <<>>
    THEN reply[r].choices[1].content ELSE Apology

\* the response determined by r's own question and r's own reply
OwnResponse(r) ==
    [kind |-> "QueryResponse", status_code |-> 200, detail |-> NoDetail,
     answer |-> OwnAnswer(r),
     confidence |-> calculate_confidence(OwnAnswer(r), request[r].question),
     sources |-> generate_sources(OwnAnswer(r)),
     suggested_follow_ups |-> generate_follow_ups(request[r].question)]

\* what r has posted is determined by its own question and context
OwnPrompt(r) ==
    IF request[r].context = <<>> THEN request[r].question
    ELSE request[r].question \o ContextPrefix \o request[r].context

\* a step leaves everything of a request that has ended as it is
EndedIsStable ==
    \A r \in Req : pc[r] = "done" =>
        /\ pc'[r] = "done"
        /\ result'[r] = result[r]
        /\ request'[r] = request[r]
        /\ reply'[r] = reply[r]
        /\ posted'[r] = posted[r]

\* C10: under any interleaving of requests, what a request posts and the answer,
\* confidence, sources and follow-ups it returns are determined by its own question,
\* context and upstream reply, whatever its startup_profile and whatever the other
\* requests do; no step of another request changes them.
C10_NoSharedState ==
    /\ [](\A r \in Req :
            /\ Answered(r) => result[r] = OwnResponse(r)
            /\ posted[r] # <<>> => posted[r] = <<OwnPrompt(r)>>)
    /\ [][EndedIsStable]_vars

\* C10 witness: two requests with different profiles, the same question and the same
\* reply have ended with the same response.
C10_Witness ==
    \E r, q \in Req :
        /\ Answered(r) /\ Answered(q)
        /\ request[r].startup_profile # request[q].startup_profile
        /\ request[r].question = request[q].question
        /\ reply[r] = reply[q]
        /\ reply[r].choices # <<>>
        /\ result[r] = result[q]

=============================================================================
